---- MODULE Spec2Model ----
(***************************************************************************)
(* Curve boolean (union / intersection / difference) of two closed NURBS   *)
(* curves, src/src/boolean/mod.rs: Boolean::boolean and try_trim.          *)
(*                                                                         *)
(* The two curves are seen through their collaborators only: the           *)
(* intersection oracle (a list of crossings, each a parameter on the       *)
(* subject curve and a parameter on the clip curve), the two containment   *)
(* tests and the trim primitive.  Parameters are integers 1..k inside the  *)
(* knot domain (0, MaxK + 1) of either curve.                              *)
(***************************************************************************)
EXTENDS Integers, Sequences, FiniteSets

\* Largest number of crossings the intersection oracle returns.
MaxK == 4

VARIABLES
    pc,             \* position in boolean()
    operation,      \* BooleanOperation of the call
    intersections,  \* enumerated oracle records, index = position
    a, b,           \* node lists of the subject (self) and the clip (other) curve
    aIdx, bIdx,     \* record index paired with each node of a / b (lines 79-105)
    a_flag, b_flag, \* seed flags (lines 119-133)
    seeded,         \* history: statuses right after seeding, before inversion
    containsRes,    \* history: what the two containment tests returned
    non_visited,    \* cursor of the non_visited closure
    current,        \* cursor of the inner walk
    nodes,          \* path of the current outer iteration
    chunkAt,        \* index of the chunk of `nodes` being assembled
    spans,          \* trimmed segments of the region being assembled
    cuts,           \* history: the try_trim calls of the region being assembled
    regions,        \* regions pushed so far (each a sequence of segments)
    regionCuts,     \* history: the try_trim calls of every pushed region
    visits,         \* history: number of visit() calls on every node
    result,         \* outcome of the call
    failure,        \* history: the collaborator whose failure ended the call
    session         \* history: the curves and the finished calls of a series of calls

vars == <<pc, operation, intersections, a, b, aIdx, bIdx, a_flag, b_flag, seeded,
          containsRes, non_visited, current, nodes, chunkAt, spans, cuts, regions,
          regionCuts, visits, result, failure, session>>

-----------------------------------------------------------------------------
(* Data *)

BooleanOperation == {"Union", "Intersection", "Difference"}

\* A null Weak / Option::None reference.
NoNode == [l |-> "none", i |-> 0]

\* Reference to the node at position i of list l ("a" or "b").
Ref(l, i) == [l |-> l, i |-> i]

\* No series of calls: the call stands alone.
NoSession == [crossings |-> <<>>, containsA |-> FALSE, containsB |-> FALSE, finished |-> <<>>]

\* Knot domain of both curves: parameters of crossings lie strictly inside.
Domain == <<0, MaxK + 1>>

\* Node::new(subject, vertex): no links, no status, not visited.
NewNode(subject, parameter) ==
    [subject |-> subject, parameter |-> parameter, status |-> "None",
     visited |-> FALSE, next |-> NoNode, prev |-> NoNode, neighbor |-> NoNode]

\* Status::invert.
Invert(s) == IF s = "Enter" THEN "Exit" ELSE IF s = "Exit" THEN "Enter" ELSE s

\* The graph as one value, to apply several node updates in one step.
Deref(g, p) == IF p.l = "a" THEN g.a[p.i] ELSE g.b[p.i]

\* Node::visit on the node p refers to.
Visit(g, p) ==
    IF p.l = "a" THEN [g EXCEPT !.a[p.i].visited = TRUE]
                 ELSE [g EXCEPT !.b[p.i].visited = TRUE]

CountVisit(v, p) ==
    IF p.l = "a" THEN [v EXCEPT !.a[p.i] = @ + 1]
                 ELSE [v EXCEPT !.b[p.i] = @ + 1]

\* All orders in which k distinct parameters 1..k can appear.
Perms(k) == {f \in [1..k -> 1..k] : \A i, j \in 1..k : f[i] = f[j] => i = j}

\* The orders for every crossing count the oracle can return.
Orders == [k \in 0..MaxK |-> Perms(k)]

-----------------------------------------------------------------------------
(* sorted_by: stable sort of the record indices by ascending parameter of one side *)

Key(recs, i, side) == IF side = "a" THEN recs[i].a ELSE recs[i].b

\* Record i comes before record j: smaller parameter, or equal parameter and i first.
Before(recs, i, j, side) ==
    \/ Key(recs, i, side) < Key(recs, j, side)
    \/ Key(recs, i, side) = Key(recs, j, side) /\ i < j

\* Position of record i in the sorted order.
Rank(recs, i, side) == 1 + Cardinality({j \in 1..Len(recs) : Before(recs, j, i, side)})

SortedBy(recs, side) ==
    [pos \in 1..Len(recs) |-> CHOOSE i \in 1..Len(recs) : Rank(recs, i, side) = pos]

\* Mutant of Find: pairs the nodes by position instead of by record index.
FindByPosition(idx, index) == IF index \in 1..Len(idx) THEN index ELSE 0

\* b.iter().find(|(i, _)| i == index): position of the first entry with that index.
Find(idx, index) ==
    IF \E j \in 1..Len(idx) : idx[j] = index
    THEN CHOOSE j \in 1..Len(idx) : idx[j] = index /\ \A h \in 1..(j - 1) : idx[h] # index
    ELSE 0

-----------------------------------------------------------------------------
(* try_trim *)

\* NurbsCurve::try_trim(u): (head, tail) of a segment cut at u.
CurveTrim(seg, u) == <<[seg EXCEPT !.hi = u], [seg EXCEPT !.lo = u]>>

WholeCurve(subject) == [subject |-> subject, lo |-> Domain[1], hi |-> Domain[2]]

Min(x, y) == IF x < y THEN x ELSE y
Max(x, y) == IF x < y THEN y ELSE x

\* Mutant of TryTrim: the two pieces of a wrapping interval in the order (head, tail2).
TryTrimHeadFirst(curve, parameters) ==
    LET min == Min(parameters[1], parameters[2])
        max == Max(parameters[1], parameters[2])
    IN IF parameters[1] < parameters[2]
       THEN <<CurveTrim(CurveTrim(curve, min)[2], max)[1]>>
       ELSE <<CurveTrim(curve, min)[1], CurveTrim(CurveTrim(curve, min)[2], max)[2]>>

TryTrim(curve, parameters) ==
    LET min == Min(parameters[1], parameters[2])
        max == Max(parameters[1], parameters[2])
        inside == parameters[1] < parameters[2]
    IN IF inside
       THEN LET tail == CurveTrim(curve, min)[2]
                head == CurveTrim(tail, max)[1]
            IN <<head>>
       ELSE LET ht == CurveTrim(curve, min)
                tail2 == CurveTrim(ht[2], max)[2]
            IN <<tail2, ht[1]>>

-----------------------------------------------------------------------------
(* Initial state: the call has been made, nothing computed yet *)

Init ==
    /\ pc = "find"
    /\ operation \in BooleanOperation
    /\ intersections = <<>>
    /\ a = <<>> /\ b = <<>>
    /\ aIdx = <<>> /\ bIdx = <<>>
    /\ a_flag = FALSE /\ b_flag = FALSE
    /\ seeded = [a |-> <<>>, b |-> <<>>]
    /\ containsRes = [a |-> FALSE, b |-> FALSE]
    /\ non_visited = NoNode
    /\ current = NoNode
    /\ nodes = <<>>
    /\ chunkAt = 0
    /\ spans = <<>>
    /\ cuts = <<>>
    /\ regions = <<>>
    /\ regionCuts = <<>>
    /\ visits = [a |-> <<>>, b |-> <<>>]
    /\ result = "none"
    /\ failure = "none"
    /\ session = NoSession

Fail(kind) == pc' = "done" /\ result' = kind

-----------------------------------------------------------------------------
(* Graph builder *)

\* line 68: the oracle returns k crossings with distinct parameters, in any order.
FindIntersections ==
    /\ pc = "find"
    /\ \E k \in 0..MaxK : \E pa, pb \in Orders[k] :
          intersections' = [i \in 1..k |-> [a |-> pa[i], b |-> pb[i]]]
    /\ pc' = "check_empty"
    /\ UNCHANGED <<operation, session, failure, a, b, aIdx, bIdx, a_flag, b_flag, seeded, containsRes,
                   non_visited, current, nodes, chunkAt, spans, cuts, regions,
                   regionCuts, visits, result>>

\* line 68 again, for the termination check: the same crossings, returned in the
\* order of their parameters on the subject curve.
FindIntersectionsInOrder ==
    /\ pc = "find"
    /\ \E k \in 0..MaxK : \E pb \in Orders[k] :
          intersections' = [i \in 1..k |-> [a |-> i, b |-> pb[i]]]
    /\ pc' = "check_empty"
    /\ UNCHANGED <<operation, session, failure, a, b, aIdx, bIdx, a_flag, b_flag, seeded, containsRes,
                   non_visited, current, nodes, chunkAt, spans, cuts, regions,
                   regionCuts, visits, result>>

\* line 68: the oracle fails, `?` returns its error.
FindIntersectionsFails ==
    /\ pc = "find"
    /\ failure' = "oracle"
    /\ Fail("err_solver")
    /\ UNCHANGED <<operation, session, intersections, a, b, aIdx, bIdx, a_flag, b_flag, seeded,
                   containsRes, non_visited, current, nodes, chunkAt, spans, cuts,
                   regions, regionCuts, visits>>

\* lines 74-76
CheckEmpty ==
    /\ pc = "check_empty"
    /\ IF intersections = <<>>
       THEN Fail("err_no_intersections")
       ELSE pc' = "create" /\ result' = result
    /\ UNCHANGED <<operation, session, failure, intersections, a, b, aIdx, bIdx, a_flag, b_flag, seeded,
                   containsRes, non_visited, current, nodes, chunkAt, spans, cuts,
                   regions, regionCuts, visits>>

\* lines 79-89: both lists, each sorted by its own parameter.
CreateLists ==
    /\ pc = "create"
    /\ aIdx' = SortedBy(intersections, "a")
    /\ bIdx' = SortedBy(intersections, "b")
    /\ a' = [j \in 1..Len(aIdx') |-> NewNode(TRUE, intersections[aIdx'[j]].a)]
    /\ b' = [j \in 1..Len(bIdx') |-> NewNode(FALSE, intersections[bIdx'[j]].b)]
    /\ visits' = [a |-> [j \in 1..Len(a') |-> 0], b |-> [j \in 1..Len(b') |-> 0]]
    /\ pc' = "connect"
    /\ UNCHANGED <<operation, session, failure, intersections, a_flag, b_flag, seeded, containsRes,
                   non_visited, current, nodes, chunkAt, spans, cuts, regions,
                   regionCuts, result>>

\* lines 92-101: set_neighbor to the node of the other list with the same index.
ConnectNeighbors ==
    /\ pc = "connect"
    /\ a' = [j \in 1..Len(a) |->
               LET h == Find(bIdx, aIdx[j])
               IN IF h # 0 THEN [a[j] EXCEPT !.neighbor = Ref("b", h)] ELSE a[j]]
    /\ b' = [j \in 1..Len(b) |->
               LET h == Find(aIdx, bIdx[j])
               IN IF h # 0 THEN [b[j] EXCEPT !.neighbor = Ref("a", h)] ELSE b[j]]
    /\ pc' = "remove_indices"
    /\ UNCHANGED <<operation, session, failure, intersections, aIdx, bIdx, a_flag, b_flag, seeded,
                   containsRes, non_visited, current, nodes, chunkAt, spans, cuts,
                   regions, regionCuts, visits, result>>

\* lines 104-105: the indexed lists are consumed; the records are not read again.
RemoveIndices ==
    /\ pc = "remove_indices"
    /\ aIdx' = <<>> /\ bIdx' = <<>>
    /\ intersections' = <<>>
    /\ pc' = "link"
    /\ UNCHANGED <<operation, session, failure, a, b, a_flag, b_flag, seeded, containsRes, non_visited,
                   current, nodes, chunkAt, spans, cuts, regions, regionCuts, visits,
                   result>>

\* Mutant of Linked: take(len) instead of take(len + 1), the ring is not closed.
LinkedOpen(l, list) ==
    LET n == Len(list)
    IN [j \in 1..n |-> [list[j] EXCEPT
            !.next = IF j = n THEN NoNode ELSE Ref(l, j + 1),
            !.prev = IF j = 1 THEN NoNode ELSE Ref(l, j - 1)]]

\* lines 108-116 on one list: windows(2) over cycle().take(len + 1).
Linked(l, list) ==
    LET n == Len(list)
        Succ(j) == IF j = n THEN 1 ELSE j + 1
        Pred(j) == IF j = 1 THEN n ELSE j - 1
    IN [j \in 1..n |-> [list[j] EXCEPT !.next = Ref(l, Succ(j)), !.prev = Ref(l, Pred(j))]]

\* lines 107-117
LinkNextPrev ==
    /\ pc = "link"
    /\ a' = Linked("a", a)
    /\ b' = Linked("b", b)
    /\ pc' = "contains_a"
    /\ UNCHANGED <<operation, session, failure, intersections, aIdx, bIdx, a_flag, b_flag, seeded,
                   containsRes, non_visited, current, nodes, chunkAt, spans, cuts,
                   regions, regionCuts, visits, result>>

\* line 119: other.contains(self.point_at(domain start)) returns c.
ContainsA ==
    /\ pc = "contains_a"
    /\ \E c \in BOOLEAN : a_flag' = ~c /\ containsRes' = [containsRes EXCEPT !.a = c]
    /\ pc' = "contains_b"
    /\ UNCHANGED <<operation, session, failure, intersections, a, b, aIdx, bIdx, b_flag, seeded,
                   non_visited, current, nodes, chunkAt, spans, cuts, regions,
                   regionCuts, visits, result>>

\* line 120: self.contains(other.point_at(domain start)) returns c.
ContainsB ==
    /\ pc = "contains_b"
    /\ \E c \in BOOLEAN : b_flag' = ~c /\ containsRes' = [containsRes EXCEPT !.b = c]
    /\ pc' = "seed"
    /\ UNCHANGED <<operation, session, failure, intersections, a, b, aIdx, bIdx, a_flag, seeded,
                   non_visited, current, nodes, chunkAt, spans, cuts, regions,
                   regionCuts, visits, result>>

\* lines 119-120: a containment test fails, `?` returns its error.
ContainsFails ==
    /\ pc \in {"contains_a", "contains_b"}
    /\ failure' = "contains"
    /\ Fail("err_contains")
    /\ UNCHANGED <<operation, session, intersections, a, b, aIdx, bIdx, a_flag, b_flag, seeded,
                   containsRes, non_visited, current, nodes, chunkAt, spans, cuts,
                   regions, regionCuts, visits>>

\* Mutant of FlagAt: the flag is never toggled.
FlagAtStuck(flag, j) == flag

\* Flag value when the j-th node of a list is reached: toggled j - 1 times.
FlagAt(flag, j) == IF (j - 1) % 2 = 0 THEN flag ELSE ~flag

\* lines 123-127 / 129-133 on one list.
Seeded(list, flag) ==
    [j \in 1..Len(list) |->
        [list[j] EXCEPT !.status = IF FlagAt(flag, j) THEN "Enter" ELSE "Exit"]]

\* lines 123-133
SeedStatus ==
    /\ pc = "seed"
    /\ a' = Seeded(a, a_flag)
    /\ b' = Seeded(b, b_flag)
    /\ a_flag' = FlagAt(a_flag, Len(a) + 1)
    /\ b_flag' = FlagAt(b_flag, Len(b) + 1)
    /\ seeded' = [a |-> [j \in 1..Len(a) |-> a'[j].status],
                  b |-> [j \in 1..Len(b) |-> b'[j].status]]
    /\ pc' = "invert"
    /\ UNCHANGED <<operation, session, failure, intersections, aIdx, bIdx, containsRes, non_visited,
                   current, nodes, chunkAt, spans, cuts, regions, regionCuts, visits,
                   result>>

Inverted(list) == [j \in 1..Len(list) |-> [list[j] EXCEPT !.status = Invert(@)]]

\* Mutant of InvertsA: Intersection instead of Difference in the first match arm.
InvertsAWrongArm(op) == op \in {"Union", "Intersection"}

\* line 136: the operations that invert the statuses of a.
InvertsA(op) == op \in {"Union", "Difference"}

\* Mutant of InvertsB: Difference inverts b as well.
InvertsBWithDifference(op) == op \in {"Union", "Difference"}

\* line 145: the operations that invert the statuses of b.
InvertsB(op) == op = "Union"

\* lines 135-152
InvertStatus ==
    /\ pc = "invert"
    /\ a' = IF InvertsA(operation) THEN Inverted(a) ELSE a
    /\ b' = IF InvertsB(operation) THEN Inverted(b) ELSE b
    /\ regions' = <<>>
    /\ pc' = "outer"
    /\ UNCHANGED <<operation, session, failure, intersections, aIdx, bIdx, a_flag, b_flag, seeded,
                   containsRes, non_visited, current, nodes, chunkAt, spans, cuts,
                   regionCuts, visits, result>>

-----------------------------------------------------------------------------
(* Traversal engine *)

Graph == [a |-> a, b |-> b]

\* Mutant of Subject: the scan starts from the first node of b.
SubjectOnClip == Ref("b", 1)

\* line 174: the scan always starts from the first node of a.
Subject == Ref("a", 1)

\* lines 193-194, 155-157: entry of non_visited(subject).
NonVisitedBegin ==
    /\ pc = "outer"
    /\ non_visited' = Subject
    /\ pc' = IF Deref(Graph, Subject).visited THEN "scan" ELSE "scan_result"
    /\ UNCHANGED <<operation, session, failure, intersections, a, b, aIdx, bIdx, a_flag, b_flag, seeded,
                   containsRes, current, nodes, chunkAt, spans, cuts, regions,
                   regionCuts, visits, result>>

\* Mutant of ScanStops: the return to the origin is not detected.
ScanStopsOnUnvisitedOnly(g, next) == ~Deref(g, next).visited

\* line 161: the scan stops on the origin or on a node not yet visited.
ScanStops(g, next) == next = Subject \/ ~Deref(g, next).visited

\* lines 158-164: one iteration of the scan loop.
NonVisitedStep ==
    /\ pc = "scan"
    /\ LET next == Deref(Graph, non_visited).next
       IN IF next = NoNode
          THEN /\ pc' = "done" /\ result' = "ok"
               /\ UNCHANGED non_visited
          ELSE /\ non_visited' = next
               /\ pc' = IF ScanStops(Graph, next) THEN "scan_result" ELSE "scan"
               /\ UNCHANGED result
    /\ UNCHANGED <<operation, session, failure, intersections, a, b, aIdx, bIdx, a_flag, b_flag, seeded,
                   containsRes, current, nodes, chunkAt, spans, cuts, regions,
                   regionCuts, visits>>

\* lines 167-171, 194-198, 278-280, 291: the scan's answer starts a path or ends the call.
NonVisitedResult ==
    /\ pc = "scan_result"
    /\ IF Deref(Graph, non_visited).visited
       THEN /\ pc' = "done" /\ result' = "ok"
            /\ UNCHANGED <<nodes, current>>
       ELSE /\ nodes' = <<>>
            /\ current' = non_visited
            /\ pc' = "walk"
            /\ UNCHANGED result
    /\ UNCHANGED <<operation, session, failure, intersections, a, b, aIdx, bIdx, a_flag, b_flag, seeded,
                   containsRes, non_visited, chunkAt, spans, cuts, regions, regionCuts,
                   visits>>

\* lines 209-213: the link the walk follows from a node.
Follow(node) ==
    IF node.status = "Enter" THEN node.next
    ELSE IF node.status = "Exit" THEN node.prev
    ELSE NoNode

\* lines 199-226: one iteration of the inner walk.
WalkStep ==
    /\ pc = "walk"
    /\ IF Deref(Graph, current).visited
       THEN /\ pc' = "assemble"
            /\ chunkAt' = 1 /\ spans' = <<>> /\ cuts' = <<>>
            /\ UNCHANGED <<a, b, visits, nodes, current, result>>
       ELSE LET g1 == Visit(Graph, current)
                node == Deref(g1, current)
                next == Follow(node)
            IN IF node.status = "None"
               THEN /\ Fail("panic")
                    /\ a' = g1.a /\ b' = g1.b
                    /\ visits' = CountVisit(visits, current)
                    /\ nodes' = Append(nodes, current)
                    /\ UNCHANGED <<current, chunkAt, spans, cuts>>
               ELSE IF next = NoNode
               THEN /\ a' = g1.a /\ b' = g1.b
                    /\ visits' = CountVisit(visits, current)
                    /\ nodes' = Append(nodes, current)
                    /\ pc' = "assemble"
                    /\ chunkAt' = 1 /\ spans' = <<>> /\ cuts' = <<>>
                    /\ UNCHANGED <<current, result>>
               ELSE LET g2 == Visit(g1, next)
                        neighbor == Deref(g2, next).neighbor
                    IN /\ a' = g2.a /\ b' = g2.b
                       /\ visits' = CountVisit(CountVisit(visits, current), next)
                       /\ nodes' = nodes \o <<current, next>>
                       /\ IF neighbor # NoNode
                          THEN /\ current' = neighbor
                               /\ UNCHANGED <<pc, chunkAt, spans, cuts>>
                          ELSE /\ pc' = "assemble"
                               /\ chunkAt' = 1 /\ spans' = <<>> /\ cuts' = <<>>
                               /\ UNCHANGED current
                       /\ UNCHANGED result
    /\ UNCHANGED <<operation, session, failure, intersections, aIdx, bIdx, a_flag, b_flag, seeded,
                   containsRes, non_visited, regions, regionCuts>>

-----------------------------------------------------------------------------
(* Span assembler *)

\* nodes.chunks(2): the c-th chunk, of length 2 except possibly the last.
Chunk(c) == SubSeq(nodes, 2 * c - 1, Min(2 * c, Len(nodes)))

\* Mutant of Params: the parameters in visiting order, whatever the statuses.
ParamsInVisitOrder(n0, n1) ==
    IF n0.status = "Enter" /\ n1.status = "Exit" THEN <<n0.parameter, n1.parameter>>
    ELSE IF n0.status = "Exit" /\ n1.status = "Enter" THEN <<n0.parameter, n1.parameter>>
    ELSE <<>>

\* lines 247-258: the parameters of a pair, or <<>> for a pair that is not Enter/Exit.
Params(n0, n1) ==
    IF n0.status = "Enter" /\ n1.status = "Exit" THEN <<n0.parameter, n1.parameter>>
    ELSE IF n0.status = "Exit" /\ n1.status = "Enter" THEN <<n1.parameter, n0.parameter>>
    ELSE <<>>

\* Mutant of Trims: the (false, false) arm is missing.
TrimsSubjectOnly(n0, n1) == n0.subject /\ n1.subject

\* lines 260-272: the pair is trimmed from a curve only when both nodes lie on it.
Trims(n0, n1) == n0.subject = n1.subject

\* The chunk at chunkAt is a full pair with valid statuses of one curve: try_trim is called.
CallsTrim ==
    /\ Len(Chunk(chunkAt)) = 2
    /\ LET n0 == Deref(Graph, Chunk(chunkAt)[1])
           n1 == Deref(Graph, Chunk(chunkAt)[2])
       IN Params(n0, n1) # <<>> /\ Trims(n0, n1)

\* lines 230-273: one iteration of the loop over the chunks of the path.
AssembleChunk ==
    /\ pc = "assemble"
    /\ IF 2 * chunkAt - 1 > Len(nodes) \/ Len(Chunk(chunkAt)) # 2
       THEN pc' = "push" /\ UNCHANGED <<chunkAt, spans, cuts>>
       ELSE LET n0 == Deref(Graph, Chunk(chunkAt)[1])
                n1 == Deref(Graph, Chunk(chunkAt)[2])
                params == Params(n0, n1)
            IN IF params = <<>>
               THEN pc' = "push" /\ UNCHANGED <<chunkAt, spans, cuts>>
               ELSE /\ chunkAt' = chunkAt + 1
                    /\ pc' = pc
                    /\ IF Trims(n0, n1)
                       THEN /\ spans' = spans \o TryTrim(WholeCurve(n0.subject), params)
                            /\ cuts' = Append(cuts, [subject |-> n0.subject,
                                                     parameters |-> params])
                       ELSE UNCHANGED <<spans, cuts>>
    /\ UNCHANGED <<operation, session, failure, intersections, a, b, aIdx, bIdx, a_flag, b_flag, seeded,
                   containsRes, non_visited, current, nodes, regions, regionCuts,
                   visits, result>>

\* Mutant of TrimFails: the error of try_trim is dropped and the span skipped.
TrimFailsSwallowed ==
    /\ pc = "assemble"
    /\ CallsTrim
    /\ failure' = "trim"
    /\ chunkAt' = chunkAt + 1
    /\ UNCHANGED <<operation, session, intersections, a, b, aIdx, bIdx, a_flag, b_flag,
                   seeded, containsRes, non_visited, current, nodes, spans, cuts,
                   regions, regionCuts, visits, pc, result>>

\* lines 262, 266: try_trim fails, `?` returns its error.
TrimFails ==
    /\ pc = "assemble"
    /\ CallsTrim
    /\ failure' = "trim"
    /\ Fail("err_trim")
    /\ UNCHANGED <<operation, session, intersections, a, b, aIdx, bIdx, a_flag, b_flag, seeded,
                   containsRes, non_visited, current, nodes, chunkAt, spans, cuts,
                   regions, regionCuts, visits>>

\* lines 275-276
PushRegion ==
    /\ pc = "push"
    /\ regions' = Append(regions, spans)
    /\ regionCuts' = Append(regionCuts, cuts)
    /\ pc' = "outer"
    /\ UNCHANGED <<operation, session, failure, intersections, a, b, aIdx, bIdx, a_flag, b_flag, seeded,
                   containsRes, non_visited, current, nodes, chunkAt, spans, cuts,
                   visits, result>>

-----------------------------------------------------------------------------

\* Every step after the oracle's answer.
AfterOracle ==
    \/ FindIntersectionsFails
    \/ CheckEmpty
    \/ CreateLists
    \/ ConnectNeighbors
    \/ RemoveIndices
    \/ LinkNextPrev
    \/ ContainsA
    \/ ContainsB
    \/ ContainsFails
    \/ SeedStatus
    \/ InvertStatus
    \/ NonVisitedBegin
    \/ NonVisitedStep
    \/ NonVisitedResult
    \/ WalkStep
    \/ AssembleChunk
    \/ TrimFails
    \/ PushRegion

Next == FindIntersections \/ AfterOracle

Spec == Init /\ [][Next]_vars

NextInOrder == FindIntersectionsInOrder \/ AfterOracle

\* The call is sequential code: whenever a step is possible, one is taken.
FairSpec == Init /\ [][NextInOrder]_vars /\ WF_vars(NextInOrder)

-----------------------------------------------------------------------------
(* try_trim on its own: any curve domain inside Domain, any two parameters
   strictly inside that domain *)

TrimInputs ==
    {[subject |-> sb, parameters |-> <<p0, p1>>, domain |-> <<t0, t1>>] :
        sb \in BOOLEAN, p0 \in Domain[1]..Domain[2], p1 \in Domain[1]..Domain[2],
        t0 \in Domain[1]..Domain[2], t1 \in Domain[1]..Domain[2]}

InitTrim ==
    /\ pc = "trim"
    /\ \E t \in TrimInputs :
          /\ t.domain[1] < t.parameters[1] /\ t.parameters[1] < t.domain[2]
          /\ t.domain[1] < t.parameters[2] /\ t.parameters[2] < t.domain[2]
          /\ cuts = <<t>>
    /\ operation = "Union"
    /\ intersections = <<>>
    /\ a = <<>> /\ b = <<>>
    /\ aIdx = <<>> /\ bIdx = <<>>
    /\ a_flag = FALSE /\ b_flag = FALSE
    /\ seeded = [a |-> <<>>, b |-> <<>>]
    /\ containsRes = [a |-> FALSE, b |-> FALSE]
    /\ non_visited = NoNode
    /\ current = NoNode
    /\ nodes = <<>>
    /\ chunkAt = 0
    /\ spans = <<>>
    /\ regions = <<>>
    /\ regionCuts = <<>>
    /\ visits = [a |-> <<>>, b |-> <<>>]
    /\ result = "none"
    /\ failure = "none"
    /\ session = NoSession

\* lines 295-318: one call of try_trim.
ApplyTrim ==
    /\ pc = "trim"
    /\ spans' = TryTrim([subject |-> cuts[1].subject, lo |-> cuts[1].domain[1],
                         hi |-> cuts[1].domain[2]], cuts[1].parameters)
    /\ pc' = "trimmed"
    /\ UNCHANGED <<operation, session, failure, intersections, a, b, aIdx, bIdx, a_flag,
                   b_flag, seeded, containsRes, non_visited, current, nodes, chunkAt,
                   cuts, regions, regionCuts, visits, result>>

TrimSpec == InitTrim /\ [][ApplyTrim]_vars

-----------------------------------------------------------------------------
(* A series of calls on the same two curves A and B: A.union(B), A.intersection(B),
   A.difference(B) and B.difference(A).  The curves fix what the collaborators
   answer: the crossings and the two containment tests. *)

CallPlan ==
    <<[operation |-> "Union", swapped |-> FALSE],
      [operation |-> "Intersection", swapped |-> FALSE],
      [operation |-> "Difference", swapped |-> FALSE],
      [operation |-> "Difference", swapped |-> TRUE]>>

\* The call in progress is the one with B as self and A as other.
Swapped ==
    Len(session.finished) < Len(CallPlan) /\ CallPlan[Len(session.finished) + 1].swapped

InitSession ==
    /\ pc = "find"
    /\ operation = CallPlan[1].operation
    /\ \E k \in 0..MaxK : \E pb \in Orders[k] : \E ca, cb \in BOOLEAN :
          session = [crossings |-> [i \in 1..k |-> [a |-> i, b |-> pb[i]]],
                     containsA |-> ca, containsB |-> cb, finished |-> <<>>]
    /\ intersections = <<>>
    /\ a = <<>> /\ b = <<>>
    /\ aIdx = <<>> /\ bIdx = <<>>
    /\ a_flag = FALSE /\ b_flag = FALSE
    /\ seeded = [a |-> <<>>, b |-> <<>>]
    /\ containsRes = [a |-> FALSE, b |-> FALSE]
    /\ non_visited = NoNode
    /\ current = NoNode
    /\ nodes = <<>>
    /\ chunkAt = 0
    /\ spans = <<>>
    /\ cuts = <<>>
    /\ regions = <<>>
    /\ regionCuts = <<>>
    /\ visits = [a |-> <<>>, b |-> <<>>]
    /\ result = "none"
    /\ failure = "none"

\* line 68: the oracle returns the crossings of the two curves, each record seen
\* from the curve that is self in this call.
FindIntersectionsOfSession ==
    /\ pc = "find"
    /\ intersections' =
          [i \in 1..Len(session.crossings) |->
              IF Swapped
              THEN [a |-> session.crossings[i].b, b |-> session.crossings[i].a]
              ELSE session.crossings[i]]
    /\ pc' = "check_empty"
    /\ UNCHANGED <<operation, session, failure, a, b, aIdx, bIdx, a_flag, b_flag, seeded,
                   containsRes, non_visited, current, nodes, chunkAt, spans, cuts,
                   regions, regionCuts, visits, result>>

\* line 119: other.contains(start of self), as the curves fix it.
ContainsAOfSession ==
    /\ pc = "contains_a"
    /\ LET c == IF Swapped THEN session.containsB ELSE session.containsA
       IN a_flag' = ~c /\ containsRes' = [containsRes EXCEPT !.a = c]
    /\ pc' = "contains_b"
    /\ UNCHANGED <<operation, session, failure, intersections, a, b, aIdx, bIdx, b_flag,
                   seeded, non_visited, current, nodes, chunkAt, spans, cuts, regions,
                   regionCuts, visits, result>>

\* line 120: self.contains(start of other), as the curves fix it.
ContainsBOfSession ==
    /\ pc = "contains_b"
    /\ LET c == IF Swapped THEN session.containsA ELSE session.containsB
       IN b_flag' = ~c /\ containsRes' = [containsRes EXCEPT !.b = c]
    /\ pc' = "seed"
    /\ UNCHANGED <<operation, session, failure, intersections, a, b, aIdx, bIdx, a_flag,
                   seeded, non_visited, current, nodes, chunkAt, spans, cuts, regions,
                   regionCuts, visits, result>>

RECURSIVE Flatten(_, _)
Flatten(seqs, n) == IF n = 0 THEN <<>> ELSE Flatten(seqs, n - 1) \o seqs[n]

\* The try_trim calls of the finished call, each named by the curve it cut.
CutsByCurve ==
    LET all == Flatten(regionCuts, Len(regionCuts))
    IN [c \in 1..Len(all) |->
           [curve |-> IF all[c].subject = Swapped THEN "B" ELSE "A",
            parameters |-> all[c].parameters]]

\* lines 44-58: the call has returned Ok; its result is kept and the next call of
\* the plan is made on the same curves.
NextCall ==
    /\ pc = "done" /\ result = "ok"
    /\ Len(session.finished) < Len(CallPlan)
    /\ session' = [session EXCEPT !.finished =
                      Append(@, [operation |-> operation, swapped |-> Swapped,
                                 crossings |-> Len(a), regions |-> Len(regions),
                                 cuts |-> CutsByCurve])]
    /\ IF Len(session.finished) + 1 < Len(CallPlan)
       THEN /\ pc' = "find"
            /\ operation' = CallPlan[Len(session.finished) + 2].operation
       ELSE /\ pc' = "end"
            /\ UNCHANGED operation
    /\ intersections' = <<>>
    /\ a' = <<>> /\ b' = <<>>
    /\ aIdx' = <<>> /\ bIdx' = <<>>
    /\ a_flag' = FALSE /\ b_flag' = FALSE
    /\ seeded' = [a |-> <<>>, b |-> <<>>]
    /\ containsRes' = [a |-> FALSE, b |-> FALSE]
    /\ non_visited' = NoNode
    /\ current' = NoNode
    /\ nodes' = <<>>
    /\ chunkAt' = 0
    /\ spans' = <<>>
    /\ cuts' = <<>>
    /\ regions' = <<>>
    /\ regionCuts' = <<>>
    /\ visits' = [a |-> <<>>, b |-> <<>>]
    /\ result' = "none"
    /\ UNCHANGED failure

NextSession ==
    \/ FindIntersectionsOfSession
    \/ CheckEmpty
    \/ CreateLists
    \/ ConnectNeighbors
    \/ RemoveIndices
    \/ LinkNextPrev
    \/ ContainsAOfSession
    \/ ContainsBOfSession
    \/ SeedStatus
    \/ InvertStatus
    \/ NonVisitedBegin
    \/ NonVisitedStep
    \/ NonVisitedResult
    \/ WalkStep
    \/ AssembleChunk
    \/ PushRegion
    \/ NextCall

SessionSpec == InitSession /\ [][NextSession]_vars

-----------------------------------------------------------------------------
(* Properties *)

\* Number of crossings the oracle returned (both lists are built with one node each).
K == Len(a)

Done == pc = "done"
Success == Done /\ result = "ok"

\* A collaborator (oracle, containment test, trim) failed and its error was returned.
CollaboratorFailed == result \in {"err_solver", "err_contains", "err_trim"}

\* The graph is complete: statuses seeded and inverted (line 150 has been passed).
GraphBuilt ==
    \/ pc \in {"outer", "scan", "scan_result", "walk", "assemble", "push"}
    \/ Done /\ result \in {"ok", "err_trim", "panic"}

AllRefs == {Ref("a", j) : j \in 1..Len(a)} \cup {Ref("b", j) : j \in 1..Len(b)}

VisitsOf(p) == IF p.l = "a" THEN visits.a[p.i] ELSE visits.b[p.i]

\* C1: when the oracle returns fewer than 2 crossings and no collaborator fails,
\* the call ends with the no-intersection error and returns no Region.
C1_FewerThanTwoFails ==
    (Done /\ K < 2 /\ ~CollaboratorFailed)
        => (result = "err_no_intersections" /\ regions = <<>>)

\* C2: when the oracle returns an odd number of crossings, the call ends with an
\* error: it never returns success with Regions.
C2_OddCountFails ==
    (Done /\ K % 2 = 1) => result # "ok"

\* C3: when a call returns success, every node of both lists has been marked
\* visited by exactly one application of the visit step.
C3_EveryNodeVisitedOnce ==
    Success => \A p \in AllRefs : VisitsOf(p) = 1 /\ Deref(Graph, p).visited

\* A path has been started and its region is not pushed yet.
InPath == pc \in {"walk", "assemble", "push"}

\* C4: once the oracle has returned a non-empty crossing list the call always
\* reaches its end, and the outer loop never starts more than k paths.
C4_Terminates ==
    /\ [](InPath => Len(regions) < K)
    /\ [](Len(regions) <= K)
    /\ (pc = "create") ~> Done

C4_Witness == Success /\ K = 4 /\ Len(regions) = 2

Flip(s) == IF s = "Enter" THEN "Exit" ELSE "Enter"

\* C5: after graph building every status is the seeded status, flipped on both
\* lists for Union, on no list for Intersection, on listA only for Difference.
C5_InversionTable ==
    GraphBuilt =>
        /\ \A j \in 1..Len(a) :
              a[j].status = CASE operation = "Union" -> Flip(seeded.a[j])
                              [] operation = "Intersection" -> seeded.a[j]
                              [] operation = "Difference" -> Flip(seeded.a[j])
        /\ \A j \in 1..Len(b) :
              b[j].status = CASE operation = "Union" -> Flip(seeded.b[j])
                              [] operation = "Intersection" -> seeded.b[j]
                              [] operation = "Difference" -> seeded.b[j]

C5_Witness ==
    GraphBuilt /\ operation = "Difference" /\ K = 3
        /\ a[1].status = "Exit" /\ seeded.a[1] = "Enter" /\ b[2].status = "Enter"

Alternates(list) ==
    /\ \A j \in 1..Len(list) : list[j].status \in {"Enter", "Exit"}
    /\ \A j \in 1..(Len(list) - 1) : list[j].status # list[j + 1].status

\* C6: after graph building consecutive nodes of listA have opposite statuses, and
\* so have those of listB; right after seeding (before inversion) the first node of
\* listA is Enter exactly when the clip does not contain the subject's start
\* point, and the first node of listB exactly when the subject does not contain
\* the clip's start point.
C6_Alternation ==
    /\ GraphBuilt => (Alternates(a) /\ Alternates(b))
    /\ pc = "invert" =>
          /\ (a[1].status = "Enter") <=> ~containsRes.a
          /\ (a[1].status = "Exit") <=> containsRes.a
          /\ (b[1].status = "Enter") <=> ~containsRes.b
          /\ (b[1].status = "Exit") <=> containsRes.b

C6_Witness ==
    GraphBuilt /\ K = 4 /\ operation = "Union" /\ containsRes.a /\ ~containsRes.b
        /\ a[1].status = "Enter" /\ a[4].status = "Exit" /\ b[1].status = "Exit"

\* Mutual one-to-one pairing between the two lists.
MutualCross ==
    /\ Len(a) = Len(b)
    /\ \A j \in 1..Len(a) :
          /\ a[j].neighbor.l = "b" /\ a[j].neighbor.i \in 1..Len(b)
          /\ b[a[j].neighbor.i].neighbor = Ref("a", j)
    /\ \A j \in 1..Len(b) :
          /\ b[j].neighbor.l = "a" /\ b[j].neighbor.i \in 1..Len(a)
          /\ a[b[j].neighbor.i].neighbor = Ref("b", j)

\* C7: both lists have k nodes and the cross link is a mutual one-to-one pairing;
\* cross partners are built from the same intersection record.
C7_CrossPairing ==
    /\ pc = "remove_indices" =>
          /\ Len(a) = Len(intersections) /\ Len(b) = Len(intersections)
          /\ MutualCross
          /\ \A j \in 1..Len(a) :
                /\ aIdx[j] = bIdx[a[j].neighbor.i]
                /\ a[j].parameter = intersections[aIdx[j]].a
                /\ b[a[j].neighbor.i].parameter = intersections[aIdx[j]].b
    /\ GraphBuilt => MutualCross

C7_Witness ==
    GraphBuilt /\ K = 4 /\ a[1].neighbor = Ref("b", 3) /\ a[2].neighbor = Ref("b", 1)
        /\ a[3].neighbor = Ref("b", 4)

RECURSIVE NextTimes(_, _)
NextTimes(p, n) == IF n = 0 THEN p ELSE Deref(Graph, NextTimes(p, n - 1)).next

\* next/prev of one list form one ring in ascending parameter order.
Ring(l, list) ==
    LET n == Len(list) IN
    /\ \A j \in 1..(n - 1) :
          list[j].parameter < list[j + 1].parameter /\ list[j].next = Ref(l, j + 1)
    /\ list[n].next = Ref(l, 1)
    /\ \A j \in 1..n :
          LET p == Ref(l, j) IN
          /\ list[j].next.l = l /\ list[j].prev.l = l
          /\ Deref(Graph, list[j].next).prev = p
          /\ Deref(Graph, list[j].prev).next = p
          /\ NextTimes(p, n) = p
          /\ {NextTimes(p, h) : h \in 0..(n - 1)} = {Ref(l, i) : i \in 1..n}

\* C8: after graph building next/prev form one circular doubly-linked list per
\* curve, in ascending parameter order.
C8_CircularLists == GraphBuilt => (Ring("a", a) /\ Ring("b", b))

C8_Witness ==
    GraphBuilt /\ K = 4 /\ a[4].next = Ref("a", 1) /\ b[1].prev = Ref("b", 4)
        /\ a[2].parameter = 2

\* C9: with two crossings every operation returns exactly one Region, cut by two
\* trims: one from the subject curve and one from the clip curve.
C9_TwoCrossingsOneRegion ==
    (Success /\ K = 2) =>
        /\ Len(regions) = 1
        /\ Len(regionCuts[1]) = 2
        /\ \E c \in 1..2 : regionCuts[1][c].subject /\ ~regionCuts[1][3 - c].subject
        /\ \E s \in 1..Len(regions[1]) : regions[1][s].subject
        /\ \E s \in 1..Len(regions[1]) : ~regions[1][s].subject

C9_Witness ==
    Success /\ K = 2 /\ operation = "Difference" /\ a[1].neighbor = Ref("b", 2)
        /\ Len(regions) = 1

\* The cut endpoints of all pushed regions that lie on one curve.
CutEnds(subject) ==
    [r \in 1..Len(regionCuts) |->
        [c \in 1..Len(regionCuts[r]) |->
            IF regionCuts[r][c].subject = subject
            THEN {regionCuts[r][c].parameters[1], regionCuts[r][c].parameters[2]}
            ELSE {}]]

\* Number of cuts of all regions that have parameter u of the given curve as an end.
RECURSIVE CountIn(_, _, _, _)
CountIn(ends, u, r, c) ==
    IF r = 0 THEN 0
    ELSE IF c = 0 THEN (IF r = 1 THEN 0 ELSE CountIn(ends, u, r - 1, Len(ends[r - 1])))
    ELSE (IF u \in ends[r][c] THEN 1 ELSE 0) + CountIn(ends, u, r, c - 1)

Consumed(subject, u) ==
    LET ends == CutEnds(subject)
    IN IF Len(ends) = 0 THEN 0 ELSE CountIn(ends, u, Len(ends), Len(ends[Len(ends)]))

\* Two lenses: four crossings whose partners appear on listB in the reverse of
\* their listA order, both lists seeded to start with Enter.
TwoLenses ==
    /\ K = 4
    /\ \A j \in 1..4 : a[j].neighbor = Ref("b", 5 - j)
    /\ seeded.a[1] = "Enter" /\ seeded.b[1] = "Enter"

\* C10: on two lenses Intersection returns exactly 2 Regions and every node of
\* both lists is consumed (is an end of exactly one span) across them.
C10_TwoLensesTwoRegions ==
    (Success /\ operation = "Intersection" /\ TwoLenses) =>
        /\ Len(regions) = 2
        /\ \A j \in 1..4 :
              /\ Consumed(TRUE, a[j].parameter) = 1
              /\ Consumed(FALSE, b[j].parameter) = 1
              /\ a[j].visited /\ b[j].visited

C10_Witness ==
    Success /\ operation = "Intersection" /\ TwoLenses /\ Len(regions) = 2
        /\ Len(regions[1]) = 2 /\ Len(regions[2]) = 2

\* What the caller gets: Ok((regions, nodes)) at line 291, or an Err without Regions.
Returned == IF result = "ok" THEN regions ELSE <<>>

\* C12: when the oracle, a containment test or the trim primitive fails, the call
\* ends with that failure as its error and returns no Region, also when the
\* failing trim belongs to a later Region.
C12_FailuresPropagate ==
    /\ failure = "oracle" => (Done /\ result = "err_solver" /\ Returned = <<>>)
    /\ failure = "contains" => (Done /\ result = "err_contains" /\ Returned = <<>>)
    /\ failure = "trim" => (Done /\ result = "err_trim" /\ Returned = <<>>)

C12_Witness ==
    Done /\ failure = "trim" /\ Len(regions) >= 1 /\ Len(cuts) >= 1 /\ result = "err_trim"

\* Number of chunks of the current path.
NChunks == (Len(nodes) + 1) \div 2

\* The c-th chunk is a full pair with statuses (Enter, Exit) or (Exit, Enter).
ValidPair(c) ==
    /\ Len(Chunk(c)) = 2
    /\ Params(Deref(Graph, Chunk(c)[1]), Deref(Graph, Chunk(c)[2])) # <<>>

\* The c-th chunk is a full pair of two nodes of the same list.
SameList(c) == Len(Chunk(c)) = 2 /\ Chunk(c)[1].l = Chunk(c)[2].l

\* C13: when the span loop of a path has ended, every valid pair of the path has
\* contributed its span: an invalid pair drops only itself, not the pairs after it.
C13_OnlyInvalidPairDropped ==
    pc = "push" => Len(cuts) = Cardinality({c \in 1..NChunks : ValidPair(c) /\ SameList(c)})

\* C14: try_trim returns the material from p0 forward to p1 in traversal order: one
\* segment [p0, p1] when p0 < p1, else the piece from p0 to the domain end followed
\* by the piece from the domain start to p1.
C14_TrimCircularInterval ==
    pc = "trimmed" =>
        LET sb == cuts[1].subject
            p0 == cuts[1].parameters[1]
            p1 == cuts[1].parameters[2]
            t0 == cuts[1].domain[1]
            t1 == cuts[1].domain[2]
        IN IF p0 < p1
           THEN spans = <<[subject |-> sb, lo |-> p0, hi |-> p1]>>
           ELSE spans = <<[subject |-> sb, lo |-> p0, hi |-> t1],
                          [subject |-> sb, lo |-> t0, hi |-> p1]>>

C14_Witness ==
    pc = "trimmed" /\ cuts[1].parameters = <<3, 1>> /\ cuts[1].domain = <<0, 4>>
        /\ Len(spans) = 2 /\ spans[1].lo = 3 /\ spans[2].hi = 1

\* The node with the given status among the two nodes of the chunk being assembled.
PairNode(status) ==
    LET n0 == Deref(Graph, Chunk(chunkAt)[1])
        n1 == Deref(Graph, Chunk(chunkAt)[2])
    IN IF n0.status = status THEN n0 ELSE n1

\* C15: every step that trims a valid pair hands try_trim the interval (parameter of
\* the Enter node, parameter of the Exit node), on the subject curve when the pair
\* lies on listA and on the clip curve when it lies on listB.
C15_TrimInterval ==
    [][(pc = "assemble" /\ CallsTrim /\ pc' = "assemble") =>
         LET onA == Chunk(chunkAt)[1].l = "a" /\ Chunk(chunkAt)[2].l = "a"
             onB == Chunk(chunkAt)[1].l = "b" /\ Chunk(chunkAt)[2].l = "b"
             interval == <<PairNode("Enter").parameter, PairNode("Exit").parameter>>
         IN /\ onA \/ onB
            /\ cuts' = Append(cuts, [subject |-> onA, parameters |-> interval])
            /\ Len(spans') > Len(spans)
            /\ \A h \in (Len(spans) + 1)..Len(spans') : spans'[h].subject = onA]_vars

\* A clip pair visited Exit first has been trimmed.
C15_Witness ==
    /\ pc = "assemble" /\ chunkAt = 3 /\ Len(cuts) = 2
    /\ nodes[3].l = "b" /\ Deref(Graph, nodes[3]).status = "Exit"
    /\ cuts[2] = [subject |-> FALSE,
                  parameters |-> <<Deref(Graph, nodes[4]).parameter,
                                   Deref(Graph, nodes[3]).parameter>>]

\* C16: with an even number k >= 2 of crossings every path has even length and each
\* of its pairs is two nodes of one list with statuses (Enter, Exit) or (Exit,
\* Enter): no pair is dropped as invalid and none is skipped as cross-curve.
C16_NoDefensiveBranch ==
    (K % 2 = 0 /\ K >= 2 /\ pc \in {"assemble", "push"}) =>
        /\ Len(nodes) % 2 = 0
        /\ Len(nodes) >= 2
        /\ \A c \in 1..NChunks : ValidPair(c) /\ SameList(c)
        /\ pc = "push" => Len(cuts) = NChunks

C16_Witness == pc = "push" /\ K = 4 /\ Len(nodes) = 8 /\ Len(cuts) = 4

\* The list the c-th pair of a path lies on when the curve switches at every jump.
ListOfPair(c) == IF c % 2 = 1 THEN "a" ELSE "b"

\* C17: in every path the first pair lies on listA and every following pair on the
\* list opposite to the pair before it, so the spans of every Region alternate
\* subject, clip, subject, ...; with k even every Region has as many subject spans
\* as clip spans.
C17_CurveSwitchesAtJump ==
    /\ pc \in {"walk", "assemble", "push"} =>
          \A h \in 1..Len(nodes) : nodes[h].l = ListOfPair((h + 1) \div 2)
    /\ pc = "walk" => current.l = ListOfPair(Len(nodes) \div 2 + 1)
    /\ \A r \in 1..Len(regionCuts) :
          /\ \A c \in 1..Len(regionCuts[r]) : regionCuts[r][c].subject = (ListOfPair(c) = "a")
          /\ K % 2 = 0 =>
                Cardinality({c \in 1..Len(regionCuts[r]) : regionCuts[r][c].subject})
                    = Cardinality({c \in 1..Len(regionCuts[r]) : ~regionCuts[r][c].subject})

C17_Witness ==
    /\ Success /\ K = 4 /\ Len(regionCuts) = 1 /\ Len(regionCuts[1]) = 4
    /\ regionCuts[1][3].subject /\ ~regionCuts[1][4].subject

\* C18: every Region of a successful call is assembled from at least one span.
C18_NoEmptyRegion ==
    Success => \A r \in 1..Len(regions) : Len(regionCuts[r]) >= 1 /\ Len(regions[r]) >= 1

-----------------------------------------------------------------------------
(* Arcs: arc i of a curve with k crossings runs from the crossing with parameter i
   forward to the next crossing (arc k passes the seam of the domain) *)

\* The arcs of the circular interval from p0 forward to p1.
ArcsOfCut(k, p0, p1) ==
    IF p0 < p1 THEN p0..(p1 - 1) ELSE (p0..k) \cup (1..(p1 - 1))

\* How many spans of a finished call cover arc i of a curve.
Mult(call, curve, i) ==
    Cardinality({c \in 1..Len(call.cuts) :
        /\ call.cuts[c].curve = curve
        /\ i \in ArcsOfCut(call.crossings, call.cuts[c].parameters[1],
                           call.cuts[c].parameters[2])})

\* A positive length for every arc, different from arc to arc.
ArcLen(curve, i) == IF curve = "A" THEN 2 * i - 1 ELSE 2 * i

RECURSIVE CurveLength(_, _, _)
CurveLength(call, curve, i) ==
    IF i = 0 THEN 0
    ELSE Mult(call, curve, i) * ArcLen(curve, i) + CurveLength(call, curve, i - 1)

\* Total boundary length of the Regions of a finished call.
BoundaryLength(call) ==
    CurveLength(call, "A", call.crossings) + CurveLength(call, "B", call.crossings)

\* All four calls of the plan have returned, on an even number k >= 2 of crossings.
PlanDone ==
    /\ Len(session.finished) = Len(CallPlan)
    /\ Len(session.crossings) % 2 = 0 /\ Len(session.crossings) >= 2

UnionCall == session.finished[1]
IntersectionCall == session.finished[2]
DifferenceCall == session.finished[3]
ReverseDifferenceCall == session.finished[4]

\* C11 as stated: the boundary length of Union(A,B) equals the sum of the boundary
\* lengths of Intersection(A,B), Difference(A,B) and Difference(B,A).
C11_PartitionLaw ==
    PlanDone =>
        BoundaryLength(UnionCall) =
            BoundaryLength(IntersectionCall) + BoundaryLength(DifferenceCall)
                + BoundaryLength(ReverseDifferenceCall)

\* Every arc between two circularly consecutive crossings, on either curve.
Arcs == {"A", "B"} \X (1..Len(session.crossings))

\* C11, amended: for an even number k >= 2 of crossings, every arc is covered by
\* Intersection(A,B), Difference(A,B) and Difference(B,A) together as often as by
\* Union(A,B) once and Intersection(A,B) twice: the three boundary lengths sum to
\* the boundary length of the union plus twice that of the intersection.
C11_PartitionLawWithIntersectionTwice ==
    PlanDone =>
        /\ \A x \in Arcs :
               Mult(IntersectionCall, x[1], x[2]) + Mult(DifferenceCall, x[1], x[2])
                   + Mult(ReverseDifferenceCall, x[1], x[2])
               = Mult(UnionCall, x[1], x[2]) + 2 * Mult(IntersectionCall, x[1], x[2])
        /\ BoundaryLength(IntersectionCall) + BoundaryLength(DifferenceCall)
               + BoundaryLength(ReverseDifferenceCall)
           = BoundaryLength(UnionCall) + 2 * BoundaryLength(IntersectionCall)

\* The four calls returned on four crossings whose partners are not in the same
\* order on both curves, and the intersection has a boundary.
C11_Witness ==
    /\ PlanDone
    /\ Len(session.crossings) = 4
    /\ \E i \in 1..4 : session.crossings[i].b # i
    /\ BoundaryLength(IntersectionCall) > 0
    /\ BoundaryLength(UnionCall) > 0

\* Union and Intersection have both returned for the same even configuration.
BothDone ==
    /\ Len(session.finished) >= 3
    /\ Len(session.crossings) % 2 = 0 /\ Len(session.crossings) >= 2

\* C19: for the same even crossing configuration, every arc of either curve is cut
\* by exactly one of Union and Intersection and by neither twice, and Difference
\* cuts the subject arcs Union cuts and the clip arcs Intersection cuts.
C19_Complementary ==
    BothDone =>
        \A x \in Arcs :
            /\ Mult(UnionCall, x[1], x[2]) + Mult(IntersectionCall, x[1], x[2]) = 1
            /\ Mult(DifferenceCall, x[1], x[2]) =
                   IF x[1] = "A" THEN Mult(UnionCall, x[1], x[2])
                   ELSE Mult(IntersectionCall, x[1], x[2])

\* The three calls returned on four crossings, each cutting arcs of both curves.
C19_Witness ==
    /\ BothDone
    /\ Len(session.crossings) = 4
    /\ \A call \in {UnionCall, IntersectionCall, DifferenceCall} :
           /\ \E i \in 1..4 : Mult(call, "A", i) = 1
           /\ \E i \in 1..4 : Mult(call, "B", i) = 1

====
